---- MODULE Spec2Model ----
(***************************************************************************)
(* A model of blinkerc (src/blinkerc/blinkerc.py): class-level and         *)
(* base-level signals built on blinker.                                    *)
(*                                                                         *)
(* blinker itself is an external library.  What the model assumes of it:   *)
(*   Namespace.signal(name)  returns the Signal stored under name, and     *)
(*                           creates it first when the name is new;        *)
(*   Signal.connect(fn)      keeps a WEAK reference to fn under fn's       *)
(*                           identity, so connecting twice is connecting   *)
(*                           once, and a receiver that is no longer        *)
(*                           referenced anywhere else drops out of the     *)
(*                           signal (CPython frees it at once);            *)
(*   Signal.send(sender,**kw) calls every receiver once with (sender,**kw);*)
(*   Signal.receivers_for(ANY) yields every live receiver.                 *)
(* User handlers are module-level functions: they stay alive.              *)
(***************************************************************************)
EXTENDS Naturals, Sequences, FiniteSets, Bags, TLC

\* ---------------------------------------------------------------- bounds
\* The number of operations of one run.
MaxOps == 3

\* The number of nested sends followed from one emission.
MaxDepth == 4


\* ------------------------------------------------------------ the universe
EVENT_TRIGGERED == "generic_event"

\* Event names: two ordinary ones and the universal channel's own name.
Names == {"created", "deleted", EVENT_TRIGGERED}

\* What connect's name=None looks like.
None == "None"

\* class A(Signaler); class B(A); class C(A); class D(B, C).
Types == {"A", "B", "C", "D"}

InitialTypes == {"A", "B", "C"}

Bases(t) ==
  CASE t = "A" -> {}
    [] t = "B" -> {"A"}
    [] t = "C" -> {"A"}
    [] t = "D" -> {"B", "C"}

\* cls.mro(), cut at Signaler (which carries no signal_namespace of its own).
Mro(t) ==
  CASE t = "A" -> <<"A">>
    [] t = "B" -> <<"B", "A">>
    [] t = "C" -> <<"C", "A">>
    [] t = "D" -> <<"D", "B", "C", "A">>

\* Senders: the class itself, an instance of it, or an explicit object.
ClsSender(t) == <<"class", t>>
InstSender(t) == <<"instance", t>>
OtherSender == <<"object", "x">>

\* What an emission carries in its keyword arguments.
Payloads == {"p1", "p2"}

\* The *sender of an emission: left out, or one explicit object.
SenderArgs == {<<>>, <<OtherSender>>}

SignalSchema(name, cascade) == [name |-> name, cascade |-> cascade]

\* A bare string given to the signals decorator in place of a schema.
Str(name) == [str |-> name]

IsStr(x) == "str" \in DOMAIN x

\* What the signals decorator is given: bare names and schema objects.
SchemaArgs(names) ==
  {Str(n) : n \in names} \cup {SignalSchema(n, c) : n \in names, c \in BOOLEAN}

RECURSIVE Range(_)
Range(s) == IF s = <<>> THEN {} ELSE {Head(s)} \cup Range(Tail(s))

\* The one element of a singleton.  Pick({F(x) : x \in {e}}) is F(e) with e
\* evaluated once, as a sequential program evaluates it.
Pick(S) == CHOOSE x \in S : TRUE

\* The argument lists of one use of a decorator: none, or one of S.
UpToOne(S) == {<<>>} \cup {<<x>> : x \in S}

\* Argument lists of up to two elements of S.
UpToTwo(S) == UpToOne(S) \cup {<<x, y>> : x \in S, y \in S}

\* The two iteration orders a set holding B and C can have.
SetOrders == {<<"A", "B", "C", "D">>, <<"A", "C", "B", "D">>}

VARIABLES
  defined,           \* the classes that exist (class statements executed)
  signal_classes,    \* the module's set signal_classes
  base_signals,      \* the module's namespace base_signals: name -> receivers
  signal_namespace,  \* per class: its own signal_namespace attribute
  cascade_attrs,     \* per class: its own _cascade_* attributes
  declared,          \* per class: the schemata the decorator was given for it
  transitive,        \* the connect_subclasses calls that returned
  op,                \* the last operation, its arguments and its outcome
  calls,             \* the handler calls the last operation made (a bag)
  nops               \* operations so far

vars == <<defined, signal_classes, base_signals, signal_namespace,
          cascade_attrs, declared, transitive, op, calls, nops>>

\* ------------------------------------------------------------- receivers
\* A user handler as a receiver of a signal.
UserReceiver(fn) == [name |-> fn, slot |-> "", target |-> ""]

\* The closure make_cascade / make_all_cascade returns, kept alive by the
\* class attribute `slot` alone.
CascadeFn(fname, slot, target) == [name |-> fname, slot |-> slot, target |-> target]

\* ------------------------------------------------------------ namespaces
\* A PointAccessNamespace: an identity and its signals in insertion order.
\* id 0 stands for "the class has no signal_namespace attribute of its own".
NoNamespace == [id |-> 0, signals |-> <<>>]

PointAccessNamespace(id) == [id |-> id, signals |-> <<>>]

Signal(name) == [name |-> name, receivers |-> {}]

NsHas(ns, name) == \E i \in DOMAIN ns.signals : ns.signals[i].name = name

NsIndex(ns, name) == CHOOSE i \in DOMAIN ns.signals : ns.signals[i].name = name

NsGet(ns, name) == ns.signals[NsIndex(ns, name)]

NsNames(ns) == {ns.signals[i].name : i \in DOMAIN ns.signals}

\* Namespace.signal(name): look up or create.
NsSignal(ns, name) ==
  IF NsHas(ns, name) THEN ns
  ELSE [ns EXCEPT !.signals = Append(@, Signal(name))]

\* Signal.connect(receiver) on the signal `name` of ns.
NsConnect(ns, name, r) ==
  [ns EXCEPT !.signals[NsIndex(ns, name)].receivers = @ \cup {r}]

\* The weak reference's cleanup: the function held by `slot` is gone from
\* every signal of ns.
NsForget(ns, slot) ==
  [ns EXCEPT !.signals =
     [i \in DOMAIN ns.signals |->
        [ns.signals[i] EXCEPT !.receivers = {r \in @ : r.slot # slot}]]]

\* The program's state as one value, for the functions below.
State ==
  [signal_classes |-> signal_classes, base_signals |-> base_signals,
   signal_namespace |-> signal_namespace, cascade_attrs |-> cascade_attrs]

\* The class that getattr(cls, "signal_namespace") finds the attribute on.
RECURSIVE FirstWith(_, _)
FirstWith(st, mro) ==
  IF mro = <<>> THEN None
  ELSE IF st.signal_namespace[Head(mro)].id # 0 THEN Head(mro)
  ELSE FirstWith(st, Tail(mro))

NamespaceOwner(st, cls) == FirstWith(st, Mro(cls))

HasNamespace(st, cls) == NamespaceOwner(st, cls) # None

GetNamespace(st, cls) == st.signal_namespace[NamespaceOwner(st, cls)]

\* {**var, **d} on insertion-ordered dicts.
RECURSIVE DictUpdate(_, _)
DictUpdate(var, d) ==
  IF d = <<>> THEN var
  ELSE LET e == Head(d)
           upd == IF \E i \in DOMAIN var : var[i].name = e.name
                  THEN [i \in DOMAIN var |->
                          IF var[i].name = e.name THEN e ELSE var[i]]
                  ELSE Append(var, e)
       IN DictUpdate(upd, Tail(d))

RECURSIVE MergeOver(_, _, _)
MergeOver(st, mro, var) ==
  IF mro = <<>> THEN var
  ELSE MergeOver(st, Tail(mro),
                 IF HasNamespace(st, Head(mro))
                 THEN DictUpdate(var, GetNamespace(st, Head(mro)).signals)
                 ELSE var)

_merge_dict_class_vars(st, clz) == MergeOver(st, Mro(clz), <<>>)

\* ------------------------------------------------------ signals decorator
\* The receiver name the decorator looks for to find an inherited cascade.
IsCascadingNamePadre(fname) == fname = "__cascade_padre"

IsCascadingName(fname) == fname = "cascade"

\* next((True for x in signal.receivers_for(ANY) if x.__name__ == "cascade"), False)
is_cascading(signal) == \E x \in signal.receivers : IsCascadingName(x.name)

InheritedSchemata(merged) ==
  [i \in DOMAIN merged |-> SignalSchema(merged[i].name, is_cascading(merged[i]))]

\* if isinstance(schema, str): schema = SignalSchema(schema)
Normalize(schema) ==
  IF IsStr(schema) THEN SignalSchema(schema.str, FALSE) ELSE schema

CascadeAttr(name) == "_cascade_" \o name

AllCascadeAttr(name) == "_cascade_" \o EVENT_TRIGGERED \o "_" \o name

\* setattr(cls, slot, fn); signal.connect(getattr(cls, slot)) on a local
\* state loc = [namespace, attrs, base].
SetAndConnect(loc, signame, slot, fn) ==
  [loc EXCEPT
     !.attrs = [a \in (DOMAIN loc.attrs) \cup {slot} |->
                  IF a = slot THEN fn ELSE loc.attrs[a]],
     !.namespace = NsConnect(NsForget(loc.namespace, slot), signame, fn)]

BaseEnsure(base, name) ==
  IF name \in DOMAIN base THEN base
  ELSE [n \in (DOMAIN base) \cup {name} |->
          IF n = name THEN {} ELSE base[n]]

WireCascade(loc, schema) ==
  IF schema.cascade
  THEN SetAndConnect([loc EXCEPT !.base = BaseEnsure(@, schema.name)],
                     schema.name, CascadeAttr(schema.name),
                     CascadeFn("__cascade_padre", CascadeAttr(schema.name),
                               schema.name))
  ELSE loc

WireAllCascade(loc, schema) ==
  SetAndConnect(loc, schema.name, AllCascadeAttr(schema.name),
                CascadeFn("__all_cascade_padre", AllCascadeAttr(schema.name),
                          EVENT_TRIGGERED))

\* One turn of the loop over schemata.
DeclareOne(loc, arg) ==
  Pick({Pick({WireAllCascade(l2, schema) :
                l2 \in {WireCascade([loc EXCEPT !.namespace = NsSignal(@, schema.name)],
                                     schema)}}) :
          schema \in {Normalize(arg)}})

RECURSIVE DeclareAll(_, _)
DeclareAll(loc, schemata) ==
  IF schemata = <<>> THEN loc
  ELSE Pick({DeclareAll(l, Tail(schemata)) : l \in {DeclareOne(loc, Head(schemata))}})

NewNamespaceId(st, cls) == st.signal_namespace[cls].id + 1

\* The schemata the loop runs over: the arguments, then the inherited names.
Schemata(st, cls, args) ==
  IF HasNamespace(st, cls)
  THEN args \o InheritedSchemata(_merge_dict_class_vars(st, cls))
  ELSE args

signals_decorator(st, cls, args) ==
  Pick({[signal_classes |-> st.signal_classes \cup {cls},
         base_signals |-> loc.base,
         signal_namespace |-> [st.signal_namespace EXCEPT ![cls] = loc.namespace],
         cascade_attrs |-> [st.cascade_attrs EXCEPT ![cls] = loc.attrs]] :
          loc \in {DeclareAll([namespace |-> PointAccessNamespace(NewNamespaceId(st, cls)),
                               attrs |-> st.cascade_attrs[cls],
                               base |-> st.base_signals],
                              Schemata(st, cls, args))}})

\* ------------------------------------------------------------ connecting
Ok == "ok"
SignalNotDefined == "Signal-Not-Defined"
NoNamespaceError == "No-Namespace"
InvalidTarget == "Invalid-Target"

connect_base_signal(st, name, fn) ==
  LET base == BaseEnsure(st.base_signals, name)
  IN [st EXCEPT !.base_signals = [base EXCEPT ![name] = @ \cup {fn}]]

\* init_class_signals without its test of signal_classes.
init_class_signals_again(st, clz) == signals_decorator(st, clz, <<>>)

init_class_signals(st, clz) ==
  IF clz \notin st.signal_classes THEN signals_decorator(st, clz, <<>>) ELSE st

\* Signaler.signals(): the error, if any, and the namespace getattr finds.
Signaler_signals(st, cls) ==
  IF ~HasNamespace(st, cls)
  THEN [err |-> NoNamespaceError, ns |-> NoNamespace]
  ELSE [err |-> Ok, ns |-> GetNamespace(st, cls)]

\* signal.connect(fn) keeping one more receiver at every call, instead of one
\* per function.
ConnectOnAnew(st, cls, name, fn) ==
  [st EXCEPT !.signal_namespace[NamespaceOwner(st, cls)] =
                NsConnect(@, name,
                          [name |-> fn, slot |-> "",
                           target |-> ToString(Cardinality(NsGet(@, name).receivers))])]

\* signal.connect(fn) on the signal `name` of the namespace cls.signals() is.
ConnectOn(st, cls, name, fn) ==
  [st EXCEPT !.signal_namespace[NamespaceOwner(st, cls)] =
                NsConnect(@, name, UserReceiver(fn))]

\* connect_class_signal looking the name up before the class is initialised.
connect_class_signal_uninitialised(st, clz, name, fn) ==
  LET got == Signaler_signals(st, clz)
  IN IF got.err # Ok THEN [st |-> st, err |-> got.err]
     ELSE IF ~NsHas(got.ns, name) THEN [st |-> st, err |-> SignalNotDefined]
     ELSE [st |-> ConnectOn(st, clz, name, fn), err |-> Ok]

\* connect_class_signal once init_class_signals has run and left st1.
ConnectInitialised(st1, clz, name, fn) ==
  LET got == Signaler_signals(st1, clz)
  IN IF got.err # Ok THEN [st |-> st1, err |-> got.err]
     ELSE IF ~NsHas(got.ns, name) THEN [st |-> st1, err |-> SignalNotDefined]
     ELSE [st |-> ConnectOn(st1, clz, name, fn), err |-> Ok]

connect_class_signal(st, clz, name, fn) ==
  Pick({ConnectInitialised(st1, clz, name, fn) :
          st1 \in {init_class_signals(st, clz)}})

\* for clz in classes: connect_class_signal(clz, signal_name, fn)
RECURSIVE ConnectEach(_, _, _, _)
ConnectEach(st, classes, name, fn) ==
  IF classes = <<>> THEN [st |-> st, err |-> Ok]
  ELSE Pick({IF r.err # Ok THEN r
              ELSE ConnectEach(r.st, Tail(classes), name, fn) :
                r \in {connect_class_signal(st, Head(classes), name, fn)}})

\* signal_name = name if name is not None else fn.__name__
SignalName(name, fn) == IF name # None THEN name ELSE fn

\* connect refusing an empty list of classes, as connect_subclasses does.
connect_requiring_classes(st, classes, name, fn) ==
  IF Len(classes) = 0 THEN [st |-> st, err |-> InvalidTarget]
  ELSE ConnectEach(st, classes, SignalName(name, fn), fn)

connect(st, classes, name, fn) ==
  IF Len(classes) = 0
  THEN [st |-> connect_base_signal(st, SignalName(name, fn), fn), err |-> Ok]
  ELSE ConnectEach(st, classes, SignalName(name, fn), fn)

\* clz.__subclasses__(): the direct subclasses that exist now.
Subclasses(clz) == {t \in defined : clz \in Bases(t)}

RECURSIVE SubclassesOf(_)
SubclassesOf(classes) ==
  IF classes = <<>> THEN {}
  ELSE Subclasses(Head(classes)) \cup SubclassesOf(Tail(classes))

\* The order in which a set of classes is iterated: that of `order`.
RECURSIVE Iterate(_, _)
Iterate(S, order) ==
  IF order = <<>> THEN <<>>
  ELSE IF Head(order) \in S THEN <<Head(order)>> \o Iterate(S, Tail(order))
  ELSE Iterate(S, Tail(order))

\* connect_subclasses_fn without its recursive call.
connect_subclasses_fn_shallow(st, classes, name, fn, order) ==
  IF Len(classes) = 0 THEN [st |-> st, err |-> InvalidTarget]
  ELSE Pick({IF r1.err # Ok THEN r1
              ELSE ConnectEach(r1.st, subclasses, name, fn) :
                r1 \in {ConnectEach(st, classes, name, fn)},
                subclasses \in {Iterate(SubclassesOf(classes), order)}})

RECURSIVE connect_subclasses_fn(_, _, _, _, _)
connect_subclasses_fn(st, classes, name, fn, order) ==
  IF Len(classes) = 0 THEN [st |-> st, err |-> InvalidTarget]
  ELSE Pick({IF r1.err # Ok THEN r1
              ELSE Pick({IF r2.err # Ok \/ subclasses = <<>> THEN r2
                         ELSE connect_subclasses_fn(r2.st, subclasses, name, fn, order) :
                           r2 \in {ConnectEach(r1.st, subclasses, name, fn)}}) :
                r1 \in {ConnectEach(st, classes, name, fn)},
                subclasses \in {Iterate(SubclassesOf(classes), order)}})

\* The classes connect_subclasses_fn runs connect_class_signal on, in order,
\* when no call fails: the classes given, their subclasses, and then the same
\* for the subclasses.
RECURSIVE ConnectVisits(_, _)
ConnectVisits(classes, order) ==
  IF Len(classes) = 0 THEN <<>>
  ELSE Pick({classes \o subclasses
               \o (IF subclasses = <<>> THEN <<>>
                   ELSE ConnectVisits(subclasses, order)) :
               subclasses \in {Iterate(SubclassesOf(classes), order)}})

connect_subclasses(st, classes, name, fn, order) ==
  connect_subclasses_fn(st, classes, SignalName(name, fn), fn, order)

\* --------------------------------------------------------------- emitting
\* One call of a user handler: fn(sender, **kwargs), reached through chan.
Call(fn, chan, sender, kwargs) ==
  [fn |-> fn, chan |-> chan, sender |-> sender, kwargs |-> kwargs]

TypeChannel(owner, name) == <<"type", owner, name>>

BaseChannel(name) == <<"base", "", name>>

\* base_signals.get(name).send(sender, **kwargs)
BaseSend(st, name, sender, kwargs) ==
  SetToBag({Call(h, BaseChannel(name), sender, kwargs) : h \in st.base_signals[name]})

\* A cascade closure sending on A's own channel of its name instead.
CascadeChannelOwn(r) == TypeChannel("A", r.target)

\* The channel a cascade closure sends on: base_signals.get(name).
CascadeChannel(r) == BaseChannel(r.target)

\* __cascade_padre / __all_cascade_padre (sender, **kwargs)
CascadePadre(st, r, sender, kwargs) ==
  BaseSend(st, CascadeChannel(r)[3], sender, kwargs)

Receive(st, r, chan, sender, kwargs) ==
  IF r.slot = "" THEN SetToBag({Call(r.name, chan, sender, kwargs)})
  ELSE CascadePadre(st, r, sender, kwargs)

\* Signal.send(sender, **kwargs) over the receivers rs.
RECURSIVE SignalSend(_, _, _, _, _)
SignalSend(st, rs, chan, sender, kwargs) ==
  IF rs = {} THEN EmptyBag
  ELSE LET r == CHOOSE x \in rs : TRUE
       IN Receive(st, r, chan, sender, kwargs)
            (+) SignalSend(st, rs \ {r}, chan, sender, kwargs)

\* The keyword arguments a receiver gets: signal=signal, **kwargs.
Kwargs(signal, payload) == [signal |-> signal, payload |-> payload]

\* cls.signals().get(signal.name).send(*sender, signal=signal, **kwargs)
Dispatch(st, cls, signal, sender, payload) ==
  SignalSend(st, NsGet(GetNamespace(st, cls), signal.name).receivers,
             TypeChannel(NamespaceOwner(st, cls), signal.name),
             sender, Kwargs(signal, payload))

\* The receivers of a channel: those of a class's own signal, or the user
\* handlers of a base-level one.
Receivers(st, chan) ==
  IF chan[1] = "type"
  THEN IF NsHas(st.signal_namespace[chan[2]], chan[3])
       THEN NsGet(st.signal_namespace[chan[2]], chan[3]).receivers
       ELSE {}
  ELSE {UserReceiver(h) : h \in st.base_signals[chan[3]]}

\* The channels Signal.send runs on when chan is sent on: chan itself, then
\* what the cascade closures among its receivers send on, followed for at
\* most `depth` nested sends.
RECURSIVE Sends(_, _, _)
RECURSIVE SendsOver(_, _, _)
Sends(st, chan, depth) ==
  SetToBag({chan})
    (+) SendsOver(st, {r \in Receivers(st, chan) : r.slot # ""}, depth)

SendsOver(st, rs, depth) ==
  IF rs = {} \/ depth = 0 THEN EmptyBag
  ELSE LET r == CHOOSE x \in rs : TRUE
       IN Sends(st, CascadeChannel(r), depth - 1)
            (+) SendsOver(st, rs \ {r}, depth)

\* sender is the tuple *sender: empty, or one explicit sender.
DefaultSender(sender, dflt) == IF Len(sender) = 0 THEN dflt ELSE sender[1]

SendFrom(st, cls, signal, sender, payload) ==
  LET got == Signaler_signals(st, cls)
  IN IF got.err # Ok THEN [st |-> st, err |-> got.err, calls |-> EmptyBag]
     ELSE IF NsHas(got.ns, signal.name)
     THEN [st |-> st, err |-> Ok,
           calls |-> Dispatch(st, cls, signal, sender, payload)]
     ELSE Pick({IF ~NsHas(GetNamespace(st1, cls), signal.name)
                 THEN [st |-> st1, err |-> SignalNotDefined, calls |-> EmptyBag]
                 ELSE [st |-> st1, err |-> Ok,
                       calls |-> Dispatch(st1, cls, signal, sender, payload)] :
                   st1 \in {init_class_signals(st, cls)}})

\* send_cls_signal without its test of condition.
send_cls_signal_unconditional(st, cls, signal, sender, condition, payload) ==
  SendFrom(st, cls, signal, DefaultSender(sender, ClsSender(cls)), payload)

send_cls_signal(st, cls, signal, sender, condition, payload) ==
  IF ~condition THEN [st |-> st, err |-> Ok, calls |-> EmptyBag]
  ELSE SendFrom(st, cls, signal, DefaultSender(sender, ClsSender(cls)), payload)

\* send_signal leaving the default sender to send_cls_signal.
send_signal_class_sender(st, cls, signal, sender, condition, payload) ==
  send_cls_signal(st, cls, signal, sender, condition, payload)

\* self is an instance of cls.
send_signal(st, cls, signal, sender, condition, payload) ==
  send_cls_signal(st, cls, signal, <<DefaultSender(sender, InstSender(cls))>>,
                  condition, payload)

\* ---------------------------------------------------------------- actions
Install(st) ==
  /\ signal_classes' = st.signal_classes
  /\ base_signals' = st.base_signals
  /\ signal_namespace' = st.signal_namespace
  /\ cascade_attrs' = st.cascade_attrs

\* The module just imported: no class registered, base_signals holding the
\* universal signal alone.
Imported ==
  [signal_classes |-> {},
   base_signals |-> [n \in {EVENT_TRIGGERED} |-> {}],
   signal_namespace |-> [t \in Types |-> NoNamespace],
   cascade_attrs |-> [t \in Types |-> <<>>]]

Is(st) ==
  /\ signal_classes = st.signal_classes
  /\ base_signals = st.base_signals
  /\ signal_namespace = st.signal_namespace
  /\ cascade_attrs = st.cascade_attrs

\* The classes A, B and C are defined, undecorated.
Undecorated ==
  /\ defined = InitialTypes
  /\ Is(Imported)
  /\ declared = [t \in Types |-> {}]
  /\ transitive = {}
  /\ op = [kind |-> "start"]
  /\ calls = EmptyBag
  /\ nops = 0

\* As Undecorated, but A was defined under the decorator: @signals(*args).
Decorated(args) ==
  /\ defined = InitialTypes
  /\ Is(signals_decorator(Imported, "A", args))
  /\ declared = [t \in Types |-> IF t = "A" THEN {Normalize(a) : a \in Range(args)}
                                 ELSE {}]
  /\ transitive = {}
  /\ op = [kind |-> "signals", cls |-> "A", args |-> args, err |-> Ok]
  /\ calls = EmptyBag
  /\ nops = 0

Step ==
  /\ nops < MaxOps
  /\ nops' = nops + 1

\* class cls(bases): pass
ClassDef(cls) ==
  /\ Step
  /\ cls \notin defined
  /\ Bases(cls) \subseteq defined
  /\ defined' = defined \cup {cls}
  /\ op' = [kind |-> "class", cls |-> cls, err |-> Ok]
  /\ calls' = EmptyBag
  /\ UNCHANGED <<signal_classes, base_signals, signal_namespace,
                 cascade_attrs, declared, transitive>>

\* signals(*args)(cls)
Signals(cls, args) ==
  /\ Step
  /\ cls \in defined
  /\ Install(signals_decorator(State, cls, args))
  /\ declared' = [declared EXCEPT ![cls] = @ \cup {Normalize(a) : a \in Range(args)}]
  /\ op' = [kind |-> "signals", cls |-> cls, args |-> args, err |-> Ok]
  /\ calls' = EmptyBag
  /\ UNCHANGED <<defined, transitive>>

\* connect_base_signal(name, fn)
ConnectBaseSignal(name, fn) ==
  /\ Step
  /\ Install(connect_base_signal(State, name, fn))
  /\ op' = [kind |-> "connect_base_signal", name |-> name, fn |-> fn, err |-> Ok]
  /\ calls' = EmptyBag
  /\ UNCHANGED <<defined, declared, transitive>>

\* connect_class_signal(clz, name, fn)
ConnectClassSignal(clz, name, fn) ==
  /\ Step
  /\ clz \in defined
  /\ \E r \in {connect_class_signal(State, clz, name, fn)} :
        /\ Install(r.st)
        /\ op' = [kind |-> "connect_class_signal", cls |-> clz, name |-> name,
                  fn |-> fn, err |-> r.err]
  /\ calls' = EmptyBag
  /\ UNCHANGED <<defined, declared, transitive>>

\* connect(*classes, name=name)(fn)
Connect(classes, name, fn) ==
  /\ Step
  /\ Range(classes) \subseteq defined
  /\ \E r \in {connect(State, classes, name, fn)} :
        /\ Install(r.st)
        /\ op' = [kind |-> "connect", classes |-> classes, name |-> name,
                  fn |-> fn, err |-> r.err]
  /\ calls' = EmptyBag
  /\ UNCHANGED <<defined, declared, transitive>>

\* connect_subclasses(*classes, name=name)(fn)
ConnectSubclasses(classes, name, fn, order) ==
  /\ Step
  /\ Range(classes) \subseteq defined
  /\ \E r \in {connect_subclasses(State, classes, name, fn, order)} :
        /\ Install(r.st)
        /\ op' = [kind |-> "connect_subclasses", classes |-> classes,
                  name |-> name, fn |-> fn, err |-> r.err]
        /\ transitive' =
             IF r.err = Ok
             THEN transitive \cup {[classes |-> Range(classes), fn |-> fn,
                                    name |-> SignalName(name, fn),
                                    defined |-> defined]}
             ELSE transitive
  /\ calls' = EmptyBag
  /\ UNCHANGED <<defined, declared>>

\* cls.send_cls_signal(signal, *sender, condition=condition, **kwargs)
SendClsSignal(cls, signal, sender, condition, payload) ==
  /\ Step
  /\ cls \in defined
  /\ \E r \in {send_cls_signal(State, cls, signal, sender, condition, payload)} :
        /\ Install(r.st)
        /\ calls' = r.calls
        /\ op' = [kind |-> "send_cls_signal", cls |-> cls, signal |-> signal,
                  sender |-> sender, condition |-> condition,
                  payload |-> payload, err |-> r.err]
  /\ UNCHANGED <<defined, declared, transitive>>

\* cls().send_signal(signal, *sender, condition=condition, **kwargs)
SendSignal(cls, signal, sender, condition, payload) ==
  /\ Step
  /\ cls \in defined
  /\ \E r \in {send_signal(State, cls, signal, sender, condition, payload)} :
        /\ Install(r.st)
        /\ calls' = r.calls
        /\ op' = [kind |-> "send_signal", cls |-> cls, signal |-> signal,
                  sender |-> sender, condition |-> condition,
                  payload |-> payload, err |-> r.err]
  /\ UNCHANGED <<defined, declared, transitive>>

\* cls.signals()
SignalsOf(cls) ==
  /\ Step
  /\ cls \in defined
  /\ \E r \in {Signaler_signals(State, cls)} :
        op' = [kind |-> "signals()", cls |-> cls, err |-> r.err,
               owner |-> IF r.err = Ok THEN NamespaceOwner(State, cls) ELSE None,
               table |-> r.ns]
  /\ calls' = EmptyBag
  /\ UNCHANGED <<defined, signal_classes, base_signals, signal_namespace,
                 cascade_attrs, declared, transitive>>

\* ------------------------------------------------------- specifications
\* Cascading: classes A and B(A), the names "created" and "generic_event",
\* a handler named like the event and one named "cascade".
CascadeTypes == {"A", "B"}

CascadeNames == {"created", EVENT_TRIGGERED}

CascadeHandlers == {"created", "cascade"}

Next ==
  \/ \E cls \in CascadeTypes,
        args \in UpToOne(SchemaArgs(CascadeNames)) :
       Signals(cls, args)
  \/ \E name \in CascadeNames, fn \in CascadeHandlers :
       ConnectBaseSignal(name, fn)
  \/ \E clz \in CascadeTypes, name \in CascadeNames, fn \in CascadeHandlers :
       ConnectClassSignal(clz, name, fn)
  \/ \E cls \in CascadeTypes, n \in CascadeNames, sender \in SenderArgs,
        p \in Payloads :
       SendClsSignal(cls, SignalSchema(n, FALSE), sender, TRUE, p)
  \/ \E cls \in CascadeTypes, n \in CascadeNames, sender \in SenderArgs,
        p \in Payloads :
       SendSignal(cls, SignalSchema(n, FALSE), sender, TRUE, p)

Init ==
  \/ Undecorated
  \/ \E args \in UpToOne(SchemaArgs(CascadeNames)) : Decorated(args)

Spec == Init /\ [][Next]_vars

\* The hierarchy: classes A, B(A), C(A) and, once defined, D(B, C); the
\* names "created" and "deleted", declared as bare names; one handler.
HierarchyNames == {"created", "deleted"}

HierarchyHandlers == {"created"}

HierarchySchemata == {Str(n) : n \in HierarchyNames}

NextHierarchy ==
  \/ \E cls \in Types : ClassDef(cls)
  \/ \E cls \in Types, args \in UpToOne(HierarchySchemata) :
       Signals(cls, args)
  \/ \E classes \in UpToOne(Types),
        name \in HierarchyNames \cup {None}, fn \in HierarchyHandlers :
       Connect(classes, name, fn)
  \/ \E classes \in UpToOne(Types),
        name \in HierarchyNames \cup {None}, fn \in HierarchyHandlers,
        order \in SetOrders :
       ConnectSubclasses(classes, name, fn, order)
  \/ \E cls \in Types, n \in HierarchyNames :
       SendClsSignal(cls, SignalSchema(n, FALSE), <<>>, TRUE, "p1")

InitHierarchy ==
  \/ Undecorated
  \/ \E args \in UpToOne(HierarchySchemata) : Decorated(args)

SpecHierarchy == InitHierarchy /\ [][NextHierarchy]_vars

\* Lazy declaration: classes A and B(A) (C(A) exists too), declared with no
\* name or with "created"; connections to up to two classes; emissions with
\* condition true and false; introspection.
LazyTypes == {"A", "B"}

LazyNames == {"created", "deleted"}

LazyHandlers == {"created"}

LazySchemata == {Str("created")}

NextLazy ==
  \/ \E cls \in LazyTypes, args \in UpToOne(LazySchemata) :
       Signals(cls, args)
  \/ \E classes \in UpToTwo(LazyTypes), name \in LazyNames, fn \in LazyHandlers :
       Connect(classes, name, fn)
  \/ \E classes \in UpToTwo(LazyTypes), name \in LazyNames, fn \in LazyHandlers,
        order \in SetOrders :
       ConnectSubclasses(classes, name, fn, order)
  \/ \E cls \in LazyTypes, n \in LazyNames, condition \in BOOLEAN :
       SendClsSignal(cls, SignalSchema(n, FALSE), <<>>, condition, "p1")
  \/ \E cls \in LazyTypes, n \in LazyNames, condition \in BOOLEAN :
       SendSignal(cls, SignalSchema(n, FALSE), <<>>, condition, "p1")
  \/ \E cls \in LazyTypes : SignalsOf(cls)

InitLazy ==
  \/ Undecorated
  \/ \E args \in UpToOne(LazySchemata) : Decorated(args)

SpecLazy == InitLazy /\ [][NextLazy]_vars

\* Attribute names: classes A and B(A); the name "created" and a name that
\* starts with EVENT_TRIGGERED and "_", so that "_cascade_" \o name is the
\* attribute of the universal edge of "created"; declarations of up to two
\* schemata.
CollisionTypes == {"A", "B"}

CollidingName == EVENT_TRIGGERED \o "_" \o "created"

CollisionNames == {"created", CollidingName}

CollisionSchemata == {Str("created"), SignalSchema(CollidingName, TRUE)}

CollisionHandlers == {"created"}

NextCollision ==
  \/ \E cls \in CollisionTypes, args \in UpToTwo(CollisionSchemata) :
       Signals(cls, args)
  \/ \E fn \in CollisionHandlers : ConnectBaseSignal(EVENT_TRIGGERED, fn)
  \/ \E cls \in CollisionTypes, n \in CollisionNames :
       SendClsSignal(cls, SignalSchema(n, FALSE), <<>>, TRUE, "p1")

InitCollision == Undecorated

SpecCollision == InitCollision /\ [][NextCollision]_vars

\* ----------------------------------------------------------------- claims
IsSend == op.kind \in {"send_cls_signal", "send_signal"}

\* The last operation was an emission that went through.
Emitted == IsSend /\ op.condition /\ op.err = Ok

\* The sender the last emission hands to its channel.
EmittedSender ==
  IF Len(op.sender) # 0 THEN op.sender[1]
  ELSE IF op.kind = "send_signal" THEN InstSender(op.cls)
  ELSE ClsSender(op.cls)

\* The calls of handler h the last emission made through channel chan.
CallsVia(h, chan) == {c \in BagToSet(calls) : c.fn = h /\ c.chan = chan}

\* The last emission called h through chan exactly once, with the emission's
\* sender and payload.
CalledOnceVia(h, chan) ==
  LET c == Call(h, chan, EmittedSender, Kwargs(op.signal, op.payload))
  IN CallsVia(h, chan) = {c} /\ CopiesIn(c, calls) = 1

AllHandlers == CascadeHandlers \cup HierarchyHandlers

Descendants(t) == {x \in Types : x # t /\ t \in Range(Mro(x))}

\* cls's own table holds name.
OwnHas(cls, name) == NsHas(signal_namespace[cls], name)

\* The user handlers connected to cls's own channel for name.
OwnHandlers(cls, name) ==
  IF OwnHas(cls, name)
  THEN {r.name : r \in {x \in NsGet(signal_namespace[cls], name).receivers : x.slot = ""}}
  ELSE {}

\* Every registration of a user handler: on the classes' own channels and
\* on the base-level ones.
Registrations ==
  [type |-> {x \in Types \X Names \X AllHandlers : x[3] \in OwnHandlers(x[1], x[2])},
   base |-> {x \in (DOMAIN base_signals) \X AllHandlers :
               x[2] \in base_signals[x[1]]}]

\* cls's own channel for name carries the cascade edge: a __cascade_padre
\* sending on the base-level channel of the same name.
CascadeEdge(cls, name) ==
  /\ OwnHas(cls, name)
  /\ \E r \in NsGet(signal_namespace[cls], name).receivers :
       r.name = "__cascade_padre" /\ r.target = name

\* cls was given exactly the schema (name, cascade), in its one declaration.
DeclaredOnceAs(cls, name, cascade) ==
  /\ signal_namespace[cls].id = 1
  /\ {d \in declared[cls] : d.name = name} = {SignalSchema(name, cascade)}

\* C1: when n was declared with cascade=true on a class, a handler h is
\* connected to the base-level channel n and the class emits n, h is called
\* exactly once through that channel, with the emission's sender and payload.
CascadeCorrectness ==
  \A n \in Names, h \in AllHandlers :
    (/\ Emitted
     /\ op.signal.name = n
     /\ DeclaredOnceAs(op.cls, n, TRUE)
     /\ n \in DOMAIN base_signals
     /\ h \in base_signals[n])
    => CalledOnceVia(h, BaseChannel(n))

\* C2: every emission of a declared name by any class calls each handler
\* connected to the universal channel exactly once.
UniversalFanOut ==
  \A h \in AllHandlers :
    (Emitted /\ h \in base_signals[EVENT_TRIGGERED])
    => CalledOnceVia(h, BaseChannel(EVENT_TRIGGERED))

\* The last step was signals(*args)(cls) with name among args.
Redeclares(cls, name) ==
  /\ op'.kind = "signals"
  /\ nops' = nops + 1
  /\ op'.cls = cls
  /\ \E i \in DOMAIN op'.args : Normalize(op'.args[i]).name = name

\* The handlers an emission of name by cls would call on cls's own channel,
\* in the current state.
WouldCall(cls, name) ==
  {c.fn : c \in {x \in BagToSet(send_cls_signal(State, cls, SignalSchema(name, FALSE),
                                                <<>>, TRUE, "p1").calls) :
                   x.chan = TypeChannel(cls, name)}}

\* C3: declaring a name again on a class that already holds it keeps the
\* channel: a handler connected to it before the second declaration is still
\* connected, and still called by an emission, after it.
DeclarationKeepsChannel ==
  [][\A cls \in Types, n \in Names :
       (OwnHas(cls, n) /\ Redeclares(cls, n))
       => /\ OwnHandlers(cls, n) \subseteq OwnHandlers(cls, n)'
          /\ OwnHandlers(cls, n) \subseteq WouldCall(cls, n)']_vars

\* The step is connect_subclasses(A, name=n)(h).
ConnectsBelowA(n, h) ==
  /\ op'.kind = "connect_subclasses"
  /\ nops' = nops + 1
  /\ op'.classes = <<"A">>
  /\ op'.fn = h
  /\ SignalName(op'.name, h) = n

\* h is connected to the channel for n of A and of every subclass of A that
\* exists, and an emission of n by any of them calls h.
ConnectedBelowA(n, h) ==
  \A x \in ({"A"} \cup Descendants("A")) \cap defined :
    /\ h \in OwnHandlers(x, n)
    /\ h \in WouldCall(x, n)

\* C4 as stated: whatever was declared before, connect_subclasses(A, name=n)(h)
\* with n declared on A connects h to A and to every existing subclass.
TransitiveScopeAnyHistory ==
  [][\A n \in Names, h \in AllHandlers :
       (OwnHas("A", n) /\ ConnectsBelowA(n, h))
       => (op'.err = Ok /\ ConnectedBelowA(n, h)')]_vars

\* Every existing subclass of A that is registered already holds n itself.
RegisteredBelowAHold(n) ==
  \A x \in Descendants("A") \cap defined :
    x \in signal_classes => OwnHas(x, n)

\* C4, amended: connect_subclasses(A, name=n)(h) with n declared on A connects
\* h to A and to every existing subclass, provided each subclass already in
\* signal_classes holds n in its own table.
TransitiveScope ==
  [][\A n \in Names, h \in AllHandlers :
       (OwnHas("A", n) /\ RegisteredBelowAHold(n) /\ ConnectsBelowA(n, h))
       => (op'.err = Ok /\ ConnectedBelowA(n, h)')]_vars

\* connect_subclasses(A, name="created")(created) has connected the handler
\* down to D.
TransitiveScopeReached ==
  /\ op.kind = "connect_subclasses"
  /\ op.classes = <<"A">>
  /\ op.err = Ok
  /\ "D" \in defined
  /\ \A x \in Types : "created" \in OwnHandlers(x, "created")

\* C5: a class defined only after connect_subclasses returned, and never
\* connected since, does not reach the handler with its emissions.
SnapshotNotConnected ==
  \A s \in transitive :
    (/\ Emitted
     /\ op.cls \notin s.defined
     /\ \E a \in s.classes : op.cls \in Descendants(a)
     /\ op.cls \notin signal_classes
     /\ op.signal.name = s.name)
    => \A c \in BagToSet(calls) : c.fn # s.fn

\* The step is connect_class_signal(T, n, h).
ConnectsClass(T, n, h) ==
  /\ op'.kind = "connect_class_signal"
  /\ nops' = nops + 1
  /\ op'.cls = T
  /\ op'.name = n
  /\ op'.fn = h

\* C6: connect_class_signal(T, n, h) declares T first, exactly when T is not
\* in signal_classes, then fails with Signal-Not-Defined and registers h
\* nowhere if T's table lacks n, and registers h on T's channel for n otherwise.
ConnectChecksAfterDeclaring ==
  [][\A T \in Types, n \in Names, h \in AllHandlers :
       ConnectsClass(T, n, h) =>
          /\ T \in signal_classes'
          /\ signal_namespace'[T].id =
               signal_namespace[T].id + (IF T \in signal_classes THEN 0 ELSE 1)
          /\ op'.err = (IF OwnHas(T, n)' THEN Ok ELSE SignalNotDefined)
          /\ op'.err = SignalNotDefined => Registrations' = Registrations
          /\ op'.err = Ok =>
               Registrations' =
                 [Registrations EXCEPT !.type = @ \cup {<<T, n, h>>}]]_vars

\* connect_class_signal declared B on the way, B inherited a name from A, and
\* the name asked for is still missing.
ConnectFailedAfterDeclaring ==
  /\ op.kind = "connect_class_signal"
  /\ op.cls = "B"
  /\ op.err = SignalNotDefined
  /\ signal_namespace["B"].id = 1
  /\ NsNames(signal_namespace["B"]) # {}
  /\ declared["B"] = {}

\* C7: an emission of a name the class's table lacks makes a lazy declaration
\* and fails with Signal-Not-Defined, for declared and undeclared classes
\* alike, and calls no handler.
EmitUndefinedFails ==
  (/\ IsSend
   /\ op.condition
   /\ ~(HasNamespace(State, op.cls)
        /\ NsHas(GetNamespace(State, op.cls), op.signal.name)))
  => /\ op.err = SignalNotDefined
     /\ op.cls \in signal_classes
     /\ calls = EmptyBag

\* C8: when A declared n with cascade=true and B was declared afterwards
\* without naming n, an emission of n on B's own channel reaches a handler
\* connected to the base-level channel n.
CascadeInherited ==
  \A n \in Names, h \in AllHandlers :
    (/\ Emitted
     /\ op.cls = "B"
     /\ op.signal.name = n
     /\ DeclaredOnceAs("A", n, TRUE)
     /\ OwnHas("B", n)
     /\ \A d \in declared["B"] : d.name # n
     /\ n \in DOMAIN base_signals
     /\ h \in base_signals[n])
    => CallsVia(h, BaseChannel(n)) # {}

\* The step is signals(SignalSchema(n, b))(B), A holding n declared with flag a.
DeclaresOverA(n, a, b) ==
  /\ op'.kind = "signals"
  /\ nops' = nops + 1
  /\ op'.cls = "B"
  /\ Len(op'.args) = 1
  /\ Normalize(op'.args[1]) = SignalSchema(n, b)
  /\ OwnHas("A", n)
  /\ {d \in declared["A"] : d.name = n} = {SignalSchema(n, a)}

DefaultSenderDelivered ==
  (IsSend /\ Len(op.sender) = 0)
  => \A c \in BagToSet(calls) :
       c.sender = (IF op.kind = "send_signal" THEN InstSender(op.cls)
                   ELSE ClsSender(op.cls))

\* An instance emitted "created" and handlers were called through the
\* base-level channel "created" and through the universal channel.
DefaultSenderReached ==
  /\ op.kind = "send_signal"
  /\ Len(op.sender) = 0
  /\ CallsVia("created", BaseChannel("created")) # {}
  /\ CallsVia("cascade", BaseChannel(EVENT_TRIGGERED)) # {}

\* C11: cls.signals() fails with No-Namespace exactly when cls itself was
\* never declared, whatever its ancestors are, and returns cls's own table
\* otherwise.
NoNamespaceUnlessDeclared ==
  op.kind = "signals()"
  => /\ op.err = (IF op.cls \in signal_classes THEN Ok ELSE NoNamespaceError)
     /\ op.err = Ok => (op.owner = op.cls /\ op.table = signal_namespace[op.cls])

\* The step is an emission with condition=false.
EmitsUnderFalse ==
  /\ op'.kind \in {"send_cls_signal", "send_signal"}
  /\ nops' = nops + 1
  /\ ~op'.condition

\* C12: an emission with condition=false calls no handler, raises no error,
\* declares nothing and leaves signal_classes, every class's table and
\* attributes and base_signals as they were.
ConditionFalseNoOp ==
  [][EmitsUnderFalse
     => /\ op'.err = Ok
        /\ calls' = EmptyBag
        /\ UNCHANGED <<signal_classes, base_signals, signal_namespace,
                       cascade_attrs>>]_vars

\* An emission with condition=false of a name nobody declared, by a class
\* with no table and no declared ancestor, returned without error.
ConditionFalseReached ==
  /\ IsSend
  /\ ~op.condition
  /\ op.err = Ok
  /\ ~HasNamespace(State, op.cls)
  /\ op.cls \notin signal_classes

\* What a step leaves of T's table: the same namespace, the same names, and
\* on each channel every receiver it had.
TableKept(T) ==
  /\ signal_namespace'[T].id = signal_namespace[T].id
  /\ Len(signal_namespace'[T].signals) = Len(signal_namespace[T].signals)
  /\ \A i \in DOMAIN signal_namespace[T].signals :
       /\ signal_namespace'[T].signals[i].name = signal_namespace[T].signals[i].name
       /\ signal_namespace[T].signals[i].receivers
            \subseteq signal_namespace'[T].signals[i].receivers

\* The step is signals(*args)(T).
DeclaresExplicitly(T) ==
  /\ op'.kind = "signals"
  /\ nops' = nops + 1
  /\ op'.cls = T

\* C16: once T is in signal_classes, only signals(*args)(T) builds T a new
\* table: every other operation keeps T's namespace, its names and every
\* receiver connected to its channels.
LazyDeclarationOnce ==
  [][\A T \in Types :
       (T \in signal_classes /\ ~DeclaresExplicitly(T))
       => (T \in signal_classes' /\ TableKept(T))]_vars

\* B, declared lazily by a connection that left a handler on its channel,
\* emitted the name and the handler was called through B's own channel.
LazyDeclarationReached ==
  /\ op.kind = "send_cls_signal"
  /\ op.cls = "B"
  /\ op.err = Ok
  /\ declared["B"] = {}
  /\ signal_namespace["B"].id = 1
  /\ CallsVia("created", TypeChannel("B", "created")) # {}

\* The step is kind(name=...)(h) with no class given.
WithoutClasses(kind, h) ==
  /\ op'.kind = kind
  /\ nops' = nops + 1
  /\ op'.classes = <<>>
  /\ op'.fn = h

\* C13: connect_subclasses with no class fails with Invalid-Target and
\* registers the handler nowhere; connect with no class registers it on the
\* base-level channel of the signal name, and nowhere else.
InvalidTargetTransitiveOnly ==
  [][\A h \in AllHandlers :
       /\ WithoutClasses("connect_subclasses", h)
            => /\ op'.err = InvalidTarget
               /\ Registrations' = Registrations
               /\ UNCHANGED <<signal_classes, base_signals, signal_namespace,
                              cascade_attrs>>
       /\ WithoutClasses("connect", h)
            => /\ op'.err = Ok
               /\ Registrations' =
                    [Registrations EXCEPT
                       !.base = @ \cup {<<SignalName(op'.name, h), h>>}]
               /\ UNCHANGED <<signal_classes, signal_namespace, cascade_attrs>>]_vars

\* connect(name="deleted")(created) put the handler on the base-level channel
\* "deleted"; connect_subclasses with no class then failed.
InvalidTargetReached ==
  /\ op.kind = "connect_subclasses"
  /\ op.classes = <<>>
  /\ op.err = InvalidTarget
  /\ "deleted" \in DOMAIN base_signals
  /\ "created" \in base_signals["deleted"]

\* Every declaration of n that cls was given had cascade=false (a bare name
\* counts as such), and cls holds n in its own table.
DeclaredWithoutCascade(cls, n) ==
  /\ OwnHas(cls, n)
  /\ \E d \in declared[cls] : d.name = n
  /\ \A d \in declared[cls] : d.name = n => ~d.cascade

\* h is connected to the base-level channel n and to no other channel.
OnlyOnBase(h, n) ==
  /\ n \in DOMAIN base_signals
  /\ h \in base_signals[n]
  /\ \A m \in (DOMAIN base_signals) \ {n} : h \notin base_signals[m]
  /\ \A t \in Types, m \in Names : h \notin OwnHandlers(t, m)

\* C14: an emission of n by a class that declared n without cascade never
\* calls a handler connected only to the base-level channel n, for every n.
NoCascadeWithoutFlag ==
  \A n \in Names, h \in AllHandlers :
    (/\ Emitted
     /\ op.signal.name = n
     /\ DeclaredWithoutCascade(op.cls, n)
     /\ OnlyOnBase(h, n))
    => \A c \in BagToSet(calls) : c.fn # h

\* The cascade closures connected to cls's own channel for name that send on
\* the base-level channel target.
EdgesTo(cls, name, target) ==
  {r \in NsGet(signal_namespace[cls], name).receivers :
     r.slot # "" /\ r.target = target}

\* C15: every channel of a declared class carries exactly one edge to the
\* universal channel and at most one edge to the base-level channel of its
\* own name, also when a declaration names a signal twice, names an inherited
\* signal, or names two signals whose cascade attributes have the same name.
CascadeEdgesOncePerName ==
  \A cls \in Types :
    signal_namespace[cls].id # 0
    => \A n \in NsNames(signal_namespace[cls]) :
         /\ Cardinality(EdgesTo(cls, n, EVENT_TRIGGERED)) = 1
         /\ n # EVENT_TRIGGERED => Cardinality(EdgesTo(cls, n, n)) <= 1

\* C17: an emission of n by T goes through T's own channel for n and no
\* other class's: a handler connected neither to that channel nor to a
\* base-level one is not called, whether or not T was declared before.
PerTypeChannelOwnership ==
  Emitted
  => /\ \A c \in BagToSet(calls) :
          c.chan[1] = "type" => c.chan = TypeChannel(op.cls, op.signal.name)
     /\ \A h \in AllHandlers :
          (/\ h \notin OwnHandlers(op.cls, op.signal.name)
           /\ \A m \in DOMAIN base_signals : h \notin base_signals[m])
          => \A c \in BagToSet(calls) : c.fn # h

\* The channel the last emission was sent on.
EmittedOn == TypeChannel(NamespaceOwner(State, op.cls), op.signal.name)

\* C18: an emission ends after sending on the class-level channel, on the
\* base-level channel of the same name (only when the channel carries the
\* cascade edge) and on the universal channel: following the cascade
\* closures, the class-level channel is sent on once, every other send is on
\* one of these two base-level channels, no send is left to follow, and the
\* handler calls made are those of the channels sent on; for every name, the
\* universal channel's own included.
CascadeAcyclic ==
  Emitted
  => /\ CopiesIn(EmittedOn, Sends(State, EmittedOn, MaxDepth)) = 1
     /\ \A c \in BagToSet(Sends(State, EmittedOn, MaxDepth)) \ {EmittedOn} :
          /\ c \in {BaseChannel(op.signal.name), BaseChannel(EVENT_TRIGGERED)}
          /\ c # BaseChannel(EVENT_TRIGGERED)
               => CascadeEdge(NamespaceOwner(State, op.cls), op.signal.name)
     /\ Sends(State, EmittedOn, MaxDepth) = Sends(State, EmittedOn, MaxDepth - 1)
     /\ \A c \in BagToSet(calls) :
          CopiesIn(c, calls) = CopiesIn(c.chan, Sends(State, EmittedOn, MaxDepth))

\* A class whose channel "generic_event" carries the cascade edge emitted
\* "generic_event", and a handler on the universal channel was called.
CascadeAcyclicReached ==
  /\ Emitted
  /\ op.signal.name = EVENT_TRIGGERED
  /\ CascadeEdge(op.cls, EVENT_TRIGGERED)
  /\ \E h \in AllHandlers : CallsVia(h, BaseChannel(EVENT_TRIGGERED)) # {}

\* How many times an emission of name by cls, in the current state, would
\* call h.
WouldCallTimes(cls, name, h) ==
  LET b == send_cls_signal(State, cls, SignalSchema(name, FALSE), <<>>, TRUE,
                           "p1").calls
  IN BagCardinality([c \in {x \in BagToSet(b) : x.fn = h} |-> CopiesIn(c, b)])

Count(x, seq) == Cardinality({i \in DOMAIN seq : seq[i] = x})

\* The step is connect_subclasses(a, name=n)(h), and it returned.
ConnectedBelow(a, n, h) ==
  /\ op'.kind = "connect_subclasses"
  /\ nops' = nops + 1
  /\ op'.classes = <<a>>
  /\ op'.fn = h
  /\ SignalName(op'.name, h) = n
  /\ op'.err = Ok

ConnectionFailed(kind, classes, n, h) ==
  /\ op'.kind = kind
  /\ nops' = nops + 1
  /\ op'.err = SignalNotDefined
  /\ op'.classes = classes
  /\ op'.fn = h
  /\ SignalName(op'.name, h) = n

\* The step is an emission by cls, not in signal_classes, that failed.
EmissionFailed(cls) ==
  /\ op'.kind \in {"send_cls_signal", "send_signal"}
  /\ nops' = nops + 1
  /\ op'.err # Ok
  /\ op'.cls = cls
  /\ cls \notin signal_classes

\* The positions in `classes` reached by the loop of a failed connection: up
\* to the first class whose own table lacks n.
Reached(classes, n) ==
  {i \in DOMAIN classes : \A k \in 1..(i - 1) : OwnHas(classes[k], n)'}

\* The classes a connection to `classes` may touch.
Touched(kind, classes) ==
  Range(classes)
    \cup (IF kind = "connect_subclasses"
          THEN UNION {Descendants(c) : c \in Range(classes)}
          ELSE {})

\* Nothing registered is lost, and the classes outside S are as they were.
OthersKept(S) ==
  /\ Registrations.type \subseteq Registrations'.type
  /\ base_signals' = base_signals
  /\ \A T \in signal_classes : T \in signal_classes' /\ TableKept(T)
  /\ \A T \in Types \ S :
       /\ signal_namespace'[T] = signal_namespace[T]
       /\ cascade_attrs'[T] = cascade_attrs[T]
       /\ T \in signal_classes' <=> T \in signal_classes

\* C20: a connection that fails with Signal-Not-Defined leaves the handler
\* on every class processed before the failing one and the failing class
\* declared; a failed emission by a class that was not declared leaves that
\* class declared, with its own table; and the failed call changes nothing
\* else.
FailureEffects ==
  [][/\ \A kind \in {"connect", "connect_subclasses"},
           classes \in UpToTwo(Types), n \in Names, h \in AllHandlers :
          ConnectionFailed(kind, classes, n, h)
          => /\ \A i \in Reached(classes, n) :
                  /\ classes[i] \in signal_classes'
                  /\ signal_namespace'[classes[i]].id # 0
                  /\ OwnHas(classes[i], n)' => h \in OwnHandlers(classes[i], n)'
             /\ OthersKept(Touched(kind, classes))
     /\ \A cls \in Types :
          EmissionFailed(cls)
          => /\ cls \in signal_classes'
             /\ signal_namespace'[cls].id # 0
             /\ calls' = EmptyBag
             /\ OthersKept({cls})]_vars
====
